---- MODULE Spec2Model ----
(***************************************************************************)
(* solana-balance (src/main.rs): one run of the balance reporter.          *)
(*                                                                         *)
(* main reads config.yaml, get_wallet_balances walks the wallets and, for  *)
(* each, get_token_balances walks the tokens; main then prints the report. *)
(* The program is one thread: every RPC call is awaited before the next    *)
(* statement runs.  An action of the model is the code between two points  *)
(* where the program waits for the outside world (the file system, the RPC *)
(* node), so an RPC call is two actions: the step that issues it and the   *)
(* step that receives the node's answer.                                   *)
(*                                                                         *)
(* Numbers.  A u64 lamport amount exceeds the checker's integers, so it is *)
(* kept as two decimal limbs [hi, lo] = hi * 10^9 + lo.  An f64 is kept as *)
(* the decimal [whole, nano] = whole + nano / 10^9; every value of the     *)
(* model is exact in that form.  The sign of a zero is not modelled.       *)
(***************************************************************************)
EXTENDS Integers, Sequences, FiniteSets

\* ---------------------------------------------------------------- bounds

\* Longest wallets list, tokens list and RPC account list the model draws.
MaxWallets == 2
MaxTokens == 2
MaxAccounts == 2

\* ------------------------------------------------------------- constants

\* 1_000_000_000.0, the divisor of main.rs:67.
LAMPORTS_PER_SOL == 1000000000
\* The precision of "{:.4}" (main.rs:121, main.rs:125).
DECIMALS == 4

\* ------------------------------------------------------- values and maps

\* HashMap::new() and HashMap::insert: an insert under a key already present
\* replaces the value.
EmptyMap == [k \in {} |-> 0]
MapInsert(m, k, v) == [x \in (DOMAIN m) \cup {k} |-> IF x = k THEN v ELSE m[x]]

\* Option<T>.
None == [some |-> FALSE]
Some(v) == [some |-> TRUE, v |-> v]

F64(whole, nano) == [whole |-> whole, nano |-> nano]
Zero == F64(0, 0)

\* f64 addition, exact on the model's decimals.
AddF64(a, b) ==
  LET n == a.nano + b.nano
  IN  IF n >= LAMPORTS_PER_SOL
        THEN F64(a.whole + b.whole + 1, n - LAMPORTS_PER_SOL)
        ELSE F64(a.whole + b.whole, n)

RECURSIVE Pow10(_)
Pow10(n) == IF n = 0 THEN 1 ELSE 10 * Pow10(n - 1)

\* format!("{:.4}", x): the decimal nearest to x with DECIMALS fraction digits,
\* as <<integer part, fraction digits>>.  A value exactly half way between two
\* such decimals is decided by its binary expansion; the model draws none.
Fmt4(x) ==
  LET unit == LAMPORTS_PER_SOL \div Pow10(DECIMALS)
      q    == x.nano \div unit
      r    == x.nano % unit
      f    == IF 2 * r > unit THEN q + 1 ELSE q
  IN  IF f = Pow10(DECIMALS) THEN <<x.whole + 1, 0>> ELSE <<x.whole, f>>

\* `sol_balance as f64 / 1_000_000_000.0` (main.rs:67).
LamportsToSolPer1e6(l) ==
  F64(l.hi * 1000 + l.lo \div 1000000, (l.lo % 1000000) * 1000)
LamportsToSol(l) == F64(l.hi, l.lo)

\* ------------------------------------------------------------ the inputs

\* Strings of the configuration.  Pubkey::from_str accepts exactly the
\* base58 strings of 32 bytes; "0OIl" is not one.
WalletA == "WalletA"
WalletB == "WalletB"
Mint1 == "Mint1"
Mint2 == "Mint2"
Mint3 == "Mint3"
NotBase58 == "0OIl"
Decodable == {WalletA, WalletB, Mint1, Mint2, Mint3}

ValidPubkeyLax(s) == TRUE
ValidPubkey(s) == s \in Decodable

WalletStrs == {WalletA, WalletB, NotBase58}

\* TokenInfo { address, ticker }.  Two mints share the ticker "USDC".
TokenInfo(address, ticker) == [address |-> address, ticker |-> ticker]
TokenInfos ==
  { TokenInfo(Mint1, "USDC"), TokenInfo(Mint2, "USDC"), TokenInfo(Mint3, "BONK"),
    TokenInfo(NotBase58, "BONK") }

SeqsUpTo(S, n) == UNION { [1..k -> S] : k \in 0..n }

\* TokenConfig { solana_rpc_url, wallets, tokens }.  The URL only names the
\* node and is left out.
TokenConfig(wallets, tokens) == [wallets |-> wallets, tokens |-> tokens]
NoConfig == TokenConfig(<<>>, <<>>)

\* The ledger of the node.  WalletA is a funded wallet: a balance of 0 or of
\* 2.5 SOL, up to MaxAccounts token accounts of each USDC mint in any form,
\* and at most one account of Mint3.  WalletB holds a little SOL and no token
\* account.  To keep the reachable reports within reach of the checker, a
\* configuration names the funded wallet at most once, and names no token
\* descriptor twice when it names the funded wallet.
Funded(wallets) == { i \in DOMAIN wallets : wallets[i] = WalletA }
NoRepeat(seq) == \A i, j \in DOMAIN seq : seq[i] = seq[j] => i = j
Configs ==
  { c \in { TokenConfig(w, t) :
              w \in SeqsUpTo(WalletStrs, MaxWallets),
              t \in SeqsUpTo(TokenInfos, MaxTokens) } :
      /\ Cardinality(Funded(c.wallets)) <= 1
      /\ Funded(c.wallets) # {} => NoRepeat(c.tokens) }

\* config.yaml as the file system holds it: absent (or unreadable), not a
\* TokenConfig in YAML, or the YAML of a configuration.
File(state, content) == [state |-> state, content |-> content]
Files ==
  {File("missing", NoConfig), File("malformed", NoConfig)}
  \cup { File("yaml", c) : c \in Configs }

Lamports(hi, lo) == [hi |-> hi, lo |-> lo]
FundedLamports == { Lamports(0, 0), Lamports(2, 500000000) }
UnfundedLamports == { Lamports(1, 234567890) }

\* UiAccountData of a returned account, and the `parsed` value of its Json
\* form: without info.tokenAmount, or with uiAmount null or a number.
Binary == [data |-> "Binary"]
Json(parsed) == [data |-> "Json", parsed |-> parsed]
NoTokenAmount == [info |-> FALSE]
TokenAmount(ui_amount) == [info |-> TRUE, ui_amount |-> ui_amount]
Accounts ==
  { Binary, Json(NoTokenAmount), Json(TokenAmount(None)),
    Json(TokenAmount(Some(F64(1, 250000000)))),
    Json(TokenAmount(Some(F64(3, 750000000)))) }
FundedAccounts == SeqsUpTo(Accounts, MaxAccounts)
FundedMint3Accounts == { <<>>, <<Json(TokenAmount(Some(F64(1, 250000000))))>> }
UnfundedAccounts == { <<>> }

\* Result<T, ClientError> of an RPC call.
Err == [ok |-> FALSE]
Ok(v) == [ok |-> TRUE, v |-> v]
Replies(S) == {Err} \cup { Ok(v) : v \in S }
FundedBalanceReplies == Replies(FundedLamports)
UnfundedBalanceReplies == Replies(UnfundedLamports)
FundedAccountsReplies == Replies(FundedAccounts)
FundedMint3AccountsReplies == Replies(FundedMint3Accounts)
UnfundedAccountsReplies == Replies(UnfundedAccounts)
\* What the node may answer to get_balance and to
\* get_token_accounts_by_owner for the wallet w (and the mint).
BalanceReplies(w) ==
  IF w = WalletA THEN FundedBalanceReplies ELSE UnfundedBalanceReplies
AccountsReplies(w, mint) ==
  IF w = WalletA
    THEN IF mint = Mint3 THEN FundedMint3AccountsReplies ELSE FundedAccountsReplies
    ELSE UnfundedAccountsReplies

\* ------------------------------------------------------ get_token_balances

\* The closure of filter_map (main.rs:92-101): the ui amount of an account,
\* None for data that is not Json, does not deserialize, or holds null.
UiAmountOf(account) ==
  IF account.data = "Json"
    THEN IF account.parsed.info THEN account.parsed.ui_amount ELSE None
    ELSE None

\* .filter_map(..).sum() (main.rs:90-102).
RECURSIVE SumFrom(_, _, _)
SumFrom(accounts, i, acc) ==
  IF i > Len(accounts) THEN acc
  ELSE LET a == UiAmountOf(accounts[i])
       IN  SumFrom(accounts, i + 1, IF a.some THEN AddF64(acc, a.v) ELSE acc)

RECURSIVE SumWhile(_, _, _)
SumWhile(accounts, i, acc) ==
  IF i > Len(accounts) THEN acc
  ELSE LET a == UiAmountOf(accounts[i])
       IN  IF a.some THEN SumWhile(accounts, i + 1, AddF64(acc, a.v)) ELSE acc

TotalBalanceFirst(accounts) ==
  IF accounts = <<>> THEN Zero ELSE SumFrom(SubSeq(accounts, 1, 1), 1, Zero)
TotalBalanceWhile(accounts) == SumWhile(accounts, 1, Zero)
TotalBalance(accounts) == SumFrom(accounts, 1, Zero)

\* The keys get_token_balances inserts under (main.rs:105).
Tickers(tokens) == { tokens[i].ticker : i \in DOMAIN tokens }

\* `for token in tokens` (main.rs:83): the ti-th descriptor.
TokenAtReversed(tokens, i) == tokens[Len(tokens) + 1 - i]
TokenAt(tokens, i) == tokens[i]

\* ------------------------------------------------------------- the report

HeaderLine == [kind |-> "header"]
WalletLine(w) == [kind |-> "wallet", wallet |-> w]
SolLine(x) == [kind |-> "sol", text |-> Fmt4(x)]
TokensLine == [kind |-> "tokens"]
TokenLine(t, x) == [kind |-> "token", ticker |-> t, text |-> Fmt4(x)]
BlankLine == [kind |-> "blank"]

\* The orders in which a HashMap with the keys S may be iterated.
Orders(S) ==
  { o \in [1..Cardinality(S) -> S] : \A i, j \in DOMAIN o : o[i] = o[j] => i = j }

\* The lines main prints for one wallet (main.rs:120-127), its tickers in
\* the order o.
WalletLines(w, balance_info, o) ==
  <<WalletLine(w), SolLine(balance_info.sol_balance), TokensLine>>
  \o [i \in DOMAIN o |-> TokenLine(o[i], balance_info.token_balances[o[i]])]
  \o <<BlankLine>>

\* The blocks of the wallets wo[i..], each with its tickers in the order to[w].
RECURSIVE Blocks(_, _, _, _)
Blocks(balances, wo, to, i) ==
  IF i > Len(wo) THEN <<>>
  ELSE WalletLines(wo[i], balances[wo[i]], to[wo[i]]) \o Blocks(balances, wo, to, i + 1)

\* Everything main prints (main.rs:118-128).
Report(balances, wo, to) == <<HeaderLine>> \o Blocks(balances, wo, to, 1)

\* ----------------------------------------------------------------- state

VARIABLES
  file,            \* config.yaml on disk
  config,          \* main's config
  pc,              \* where the program is
  err,             \* the error main returned, "none" while it has not
  wi,              \* position of `for wallet_str in &config.wallets`
  ti,              \* position of `for token in tokens`
  sol_balance,     \* lamports of the wallet in hand
  token_balances,  \* get_token_balances' map
  results,         \* get_wallet_balances' map
  rpcLog,          \* the RPC calls issued, in order, with their outcome
  outstanding,     \* RPC calls issued and not yet answered
  stdout,          \* the lines printed
  reply,           \* history: the accounts reply the loop body has just handled
  seen,            \* history: what the node returned for the wallet in hand
  returned         \* history: what the node returned, per reported wallet

vars ==
  <<file, config, pc, err, wi, ti, sol_balance, token_balances, results, rpcLog,
    outstanding, stdout, reply, seen, returned>>

Call(method, wallet, mint) ==
  [method |-> method, wallet |-> wallet, mint |-> mint, outcome |-> "pending"]

\* The last call of the log, answered.
Answered(log, outcome) ==
  [log EXCEPT ![Len(log)] = [@ EXCEPT !.outcome = outcome]]

\* What the history keeps of an accounts reply: the sum of the ui amounts of
\* its accounts that hold one, and whether it had an account that holds none.
RECURSIVE SumOver(_, _)
SumOver(accounts, I) ==
  IF I = {} THEN Zero
  ELSE LET i == CHOOSE x \in I : TRUE
       IN  AddF64(accounts[i].parsed.ui_amount.v, SumOver(accounts, I \ {i}))
HasAmount(account) ==
  /\ account.data = "Json"
  /\ account.parsed.info
  /\ account.parsed.ui_amount.some
ParsedSum(accounts) ==
  SumOver(accounts, { i \in DOMAIN accounts : HasAmount(accounts[i]) })
NoReply == [fresh |-> FALSE, sum |-> Zero, skipped |-> FALSE]
Handled(accounts) ==
  [fresh |-> TRUE, sum |-> ParsedSum(accounts),
   skipped |-> \E i \in DOMAIN accounts : ~HasAmount(accounts[i])]
\* The replies of one wallet, added up per ticker.
Seen(m, ticker, sum) ==
  MapInsert(m, ticker, AddF64(IF ticker \in DOMAIN m THEN m[ticker] ELSE Zero, sum))

Init ==
  /\ file \in Files
  /\ config = NoConfig
  /\ pc = "start"
  /\ err = "none"
  /\ wi = 1
  /\ ti = 1
  /\ sol_balance = Lamports(0, 0)
  /\ token_balances = EmptyMap
  /\ results = EmptyMap
  /\ rpcLog = <<>>
  /\ outstanding = 0
  /\ stdout = <<>>
  /\ reply = NoReply
  /\ seen = EmptyMap
  /\ returned = EmptyMap

\* ---------------------------------------------------------- error return

\* `?` returning the error from main (main.rs:113-116): nothing is printed to
\* standard output, the run is over.
FailAfterHeader(kind) ==
  /\ pc' = "failed"
  /\ err' = kind
  /\ stdout' = Append(stdout, HeaderLine)
  /\ UNCHANGED <<config, wi, ti, sol_balance, token_balances, results,
                 reply, seen, returned>>
Fail(kind) ==
  /\ pc' = "failed"
  /\ err' = kind
  /\ UNCHANGED <<config, wi, ti, sol_balance, token_balances, results, stdout,
                 reply, seen, returned>>

\* `?` on the result of an RPC call (main.rs:60, main.rs:87).
RpcFailSkipsWallet ==
  /\ pc' = "wallet_loop"
  /\ wi' = wi + 1
  /\ UNCHANGED <<err, config, ti, sol_balance, token_balances, results, stdout,
                 reply, seen, returned>>
RpcFail == Fail("Rpc")

\* ----------------------------------------------------------------- main

\* fs::read_to_string and serde_yaml::from_str (main.rs:113-114).
ReadConfigOrDefault(f) ==
  IF f.state = "missing" THEN [ok |-> FALSE, kind |-> "Io"]
  ELSE IF f.state = "malformed" THEN Ok(TokenConfig(<<WalletB>>, <<>>))
  ELSE Ok(f.content)
ReadConfig(f) ==
  IF f.state = "missing" THEN [ok |-> FALSE, kind |-> "Io"]
  ELSE IF f.state = "malformed" THEN [ok |-> FALSE, kind |-> "Parse"]
  ELSE Ok(f.content)

\* What deserializing checks of the token addresses: nothing, `address` is a
\* String (main.rs:18-22).
MintsDecodable(c) == \A i \in DOMAIN c.tokens : ValidPubkey(c.tokens[i].address)
Deserializes(c) == TRUE

LoadConfig ==
  /\ pc = "start"
  /\ LET r == ReadConfig(file)
     IN  IF r.ok
           THEN IF Deserializes(r.v)
                  THEN /\ config' = r.v
                       /\ pc' = "wallet_loop"
                       /\ UNCHANGED <<err, wi, ti, sol_balance, token_balances,
                                      results, stdout, reply, seen,
                                      returned>>
                  ELSE Fail("Parse")
           ELSE Fail(r.kind)
  /\ UNCHANGED <<file, rpcLog, outstanding>>

\* ------------------------------------------------------ get_wallet_balances

\* The head of the wallet loop (main.rs:57-60): past the last wallet the
\* function returns Ok(results); otherwise the wallet is decoded and its
\* get_balance call is issued.
WalletNext ==
  /\ pc = "wallet_loop"
  /\ IF wi > Len(config.wallets)
       THEN /\ pc' = "report"
            /\ UNCHANGED <<err, config, wi, ti, sol_balance, token_balances,
                           results, stdout, reply, seen, returned,
                           rpcLog, outstanding>>
       ELSE IF ~ValidPubkey(config.wallets[wi])
         THEN Fail("DecodeWallet") /\ UNCHANGED <<rpcLog, outstanding>>
         ELSE /\ rpcLog' = Append(rpcLog, Call("get_balance", config.wallets[wi], "-"))
              /\ outstanding' = outstanding + 1
              /\ pc' = "await_balance"
              /\ UNCHANGED <<err, config, wi, ti, sol_balance, token_balances,
                             results, stdout, reply, seen, returned>>
  /\ UNCHANGED file

\* The node answers get_balance (main.rs:60); on Ok get_token_balances
\* starts with an empty map (main.rs:62, main.rs:81).
GetBalanceReturn ==
  /\ pc = "await_balance"
  /\ \E r \in BalanceReplies(config.wallets[wi]) :
       /\ outstanding' = outstanding - 1
       /\ IF r.ok
            THEN /\ rpcLog' = Answered(rpcLog, "ok")
                 /\ sol_balance' = r.v
                 /\ token_balances' = EmptyMap
                 /\ ti' = 1
                 /\ seen' = EmptyMap
                 /\ pc' = "token_loop"
                 /\ UNCHANGED <<err, config, wi, results, stdout, reply,
                                returned>>
            ELSE /\ rpcLog' = Answered(rpcLog, "err")
                 /\ RpcFail
  /\ UNCHANGED file

\* The head of the token loop (main.rs:83-87): past the last token
\* get_token_balances returns and the wallet's result is inserted
\* (main.rs:64-70); otherwise the mint is decoded and its
\* get_token_accounts_by_owner call is issued.
TokenNext ==
  /\ pc = "token_loop"
  /\ IF ti > Len(config.tokens)
       THEN /\ results' =
                 MapInsert(results, config.wallets[wi],
                           [sol_balance |-> LamportsToSol(sol_balance),
                            token_balances |-> token_balances])
            /\ returned' =
                 MapInsert(returned, config.wallets[wi],
                           [lamports |-> sol_balance, sums |-> seen])
            /\ wi' = wi + 1
            /\ reply' = NoReply
            /\ pc' = "wallet_loop"
            /\ UNCHANGED <<err, config, ti, sol_balance, token_balances, stdout,
                           seen, rpcLog, outstanding>>
       ELSE IF ~ValidPubkey(TokenAt(config.tokens, ti).address)
         THEN Fail("DecodeMint") /\ UNCHANGED <<rpcLog, outstanding>>
         ELSE /\ rpcLog' =
                   Append(rpcLog, Call("get_token_accounts_by_owner",
                                       config.wallets[wi],
                                       TokenAt(config.tokens, ti).address))
              /\ outstanding' = outstanding + 1
              /\ reply' = NoReply
              /\ pc' = "await_accounts"
              /\ UNCHANGED <<err, config, wi, ti, sol_balance, token_balances,
                             results, stdout, seen, returned>>
  /\ UNCHANGED file

\* The node answers get_token_accounts_by_owner and the loop body runs to its
\* end (main.rs:86-105): the accounts are summed and the sum is inserted
\* under the token's ticker.
TokenAccountsReturn ==
  /\ pc = "await_accounts"
  /\ \E r \in AccountsReplies(config.wallets[wi],
                            TokenAt(config.tokens, ti).address) :
       /\ outstanding' = outstanding - 1
       /\ IF r.ok
            THEN LET token_accounts == r.v
                     total_balance  == TotalBalance(token_accounts)
                     ticker         == TokenAt(config.tokens, ti).ticker
                     handled        == Handled(token_accounts)
                 IN  /\ rpcLog' = Answered(rpcLog, "ok")
                     /\ token_balances' = MapInsert(token_balances, ticker, total_balance)
                     /\ ti' = ti + 1
                     /\ reply' = handled
                     /\ seen' = Seen(seen, ticker, handled.sum)
                     /\ pc' = "token_loop"
                     /\ UNCHANGED <<err, config, wi, sol_balance, results, stdout,
                                    returned>>
            ELSE /\ rpcLog' = Answered(rpcLog, "err")
                 /\ RpcFail
  /\ UNCHANGED file

\* ------------------------------------------------------------ main, again

\* The report (main.rs:118-130): the header, then one block per entry of
\* `balances`.  The map yields its entries in an order of its own, and so
\* does each wallet's token_balances.
PrintReport ==
  /\ pc = "report"
  /\ \E wo \in Orders(DOMAIN results) :
       \E to \in [DOMAIN results -> Orders(Tickers(config.tokens))] :
         stdout' = stdout \o Report(results, wo, to)
  /\ pc' = "done"
  /\ UNCHANGED <<file, err, config, wi, ti, sol_balance, token_balances, results,
                 rpcLog, outstanding, reply, seen, returned>>

Next ==
  \/ LoadConfig
  \/ WalletNext
  \/ GetBalanceReturn
  \/ TokenNext
  \/ TokenAccountsReturn
  \/ PrintReport

Spec == Init /\ [][Next]_vars

\* ---------------------------------------------------------------- claims

\* What the claims say of the run, in their own words.
Min(S) == CHOOSE m \in S : \A x \in S : m <= x
Failed == pc = "failed"
Succeeded == pc \in {"report", "done"}
ConfiguredWallets == { config.wallets[i] : i \in DOMAIN config.wallets }
UndecodableWallets ==
  { i \in DOMAIN config.wallets : config.wallets[i] \notin Decodable }
UndecodableMints ==
  { i \in DOMAIN config.tokens : config.tokens[i].address \notin Decodable }
DistinctTickers ==
  \A i, j \in DOMAIN config.tokens :
    config.tokens[i].ticker = config.tokens[j].ticker => i = j
AllAnswered(outcome) == \A k \in DOMAIN rpcLog : rpcLog[k].outcome = outcome

\* The wallet whose block of the report holds line k.
OwnerOf(k) ==
  LET j == CHOOSE j \in 1..k :
             /\ stdout[j].kind = "wallet"
             /\ \A i \in (j + 1)..k : stdout[i].kind # "wallet"
  IN  stdout[j].wallet
SolLinesOf(w) ==
  { k \in DOMAIN stdout : stdout[k].kind = "sol" /\ OwnerOf(k) = w }
TokenLinesOf(w, t) ==
  { k \in DOMAIN stdout :
      /\ stdout[k].kind = "token"
      /\ stdout[k].ticker = t
      /\ OwnerOf(k) = w }

\* The calls a complete run makes: per wallet, in the order of the list, one
\* get_balance and then one get_token_accounts_by_owner per token, in the
\* order of the list.
ExpectedCalls ==
  LET T == Len(config.tokens)
  IN  [k \in 1..(Len(config.wallets) * (1 + T)) |->
         LET w == config.wallets[((k - 1) \div (1 + T)) + 1]
             r == (k - 1) % (1 + T)
         IN  IF r = 0
               THEN [method |-> "get_balance", wallet |-> w, mint |-> "-"]
               ELSE [method |-> "get_token_accounts_by_owner", wallet |-> w,
                     mint |-> config.tokens[r].address]]
IssuedCalls ==
  [k \in DOMAIN rpcLog |->
     [method |-> rpcLog[k].method, wallet |-> rpcLog[k].wallet,
      mint |-> rpcLog[k].mint]]

\* C1: a run that fails has printed nothing to standard output, not the
\* header and not the block of a wallet whose queries had succeeded; whatever
\* is printed is printed by a run whose configuration loaded, whose wallets
\* and mints all decoded and whose every call was answered without error.
C1_NoReportOnFailure ==
  /\ (err # "none") <=> Failed
  /\ Failed => stdout = <<>>
  /\ stdout # <<>> =>
       /\ pc = "done"
       /\ file.state = "yaml"
       /\ UndecodableWallets = {}
       /\ config.wallets # <<>> => UndecodableMints = {}
       /\ AllAnswered("ok")
       /\ Len(rpcLog) = Len(config.wallets) * (1 + Len(config.tokens))
C1_Witness ==
  /\ Failed
  /\ DOMAIN results # {}
  /\ stdout = <<>>

\* C2: no RPC call is ever issued for a wallet string that is not a public
\* key; a run whose wallets list holds one never succeeds, fails with the
\* decode error when it reaches it, and has called the node only for wallets
\* that precede it in the list.
C2_UndecodableWalletNeverQueried ==
  /\ \A k \in DOMAIN rpcLog : rpcLog[k].wallet \in Decodable
  /\ UndecodableWallets # {} =>
       /\ ~Succeeded
       /\ \A k \in DOMAIN rpcLog :
            \E j \in 1..(Min(UndecodableWallets) - 1) :
              config.wallets[j] = rpcLog[k].wallet
       /\ (Failed /\ wi \in UndecodableWallets) => err = "DecodeWallet"
  /\ err = "DecodeWallet" =>
       /\ UndecodableWallets # {}
       /\ wi = Min(UndecodableWallets)
       /\ Len(rpcLog) = (wi - 1) * (1 + Len(config.tokens))
C2_Witness ==
  /\ err = "DecodeWallet"
  /\ rpcLog # <<>>

\* C3: with config.yaml missing or malformed the run fails (I/O error, parse
\* error) without a single RPC call; a call is issued only once the
\* configuration has been read and parsed.
C3_NoCallWithoutConfig ==
  /\ file.state # "yaml" =>
       /\ rpcLog = <<>>
       /\ outstanding = 0
       /\ pc \in {"start", "failed"}
       /\ config = NoConfig
  /\ (Failed /\ file.state = "missing") => err = "Io"
  /\ (Failed /\ file.state = "malformed") => err = "Parse"
  /\ rpcLog # <<>> => (file.state = "yaml" /\ config = file.content)
C3_Witness ==
  /\ Failed
  /\ file.state = "malformed"
  /\ rpcLog = <<>>

\* C4: in a finished run whose tickers are distinct, for every wallet and
\* every token the balance kept and printed under the token's ticker is the
\* sum of the ui amounts of the accounts the node returned for that wallet
\* and mint that hold one (for a wallet listed twice, in its latest reply);
\* it is 0 when no account was returned or none holds an amount.
C4_ReportedTokenBalance ==
  (pc = "done" /\ DistinctTickers) =>
    \A w \in ConfiguredWallets : \A i \in DOMAIN config.tokens :
      LET t == config.tokens[i].ticker
      IN  /\ results[w].token_balances[t] = returned[w].sums[t]
          /\ Cardinality(TokenLinesOf(w, t)) = 1
          /\ \A k \in TokenLinesOf(w, t) :
               stdout[k].text = Fmt4(returned[w].sums[t])
C4_Witness ==
  /\ pc = "done"
  /\ DistinctTickers
  /\ \E w \in ConfiguredWallets :
       /\ DOMAIN returned[w].sums = {"USDC", "BONK"}
       /\ returned[w].sums["USDC"] = F64(5, 0)
       /\ returned[w].sums["BONK"] = Zero
       /\ \E k \in TokenLinesOf(w, "USDC") : stdout[k].text = <<5, 0>>
       /\ \E k \in TokenLinesOf(w, "BONK") : stdout[k].text = <<0, 0>>

\* C5: in a finished run, whether or not descriptors share a ticker, the
\* balance kept under a ticker is the sum over all the replies for the
\* descriptors with that ticker.
C5_SummedPerTicker ==
  pc = "done" =>
    \A w \in ConfiguredWallets : \A t \in Tickers(config.tokens) :
      results[w].token_balances[t] = returned[w].sums[t]

\* C6: a reply with accounts that hold no amount (binary data, a payload
\* without info.tokenAmount, a null uiAmount) does not fail the run: the loop
\* goes on, and the sum kept under the ticker is the sum of the other
\* accounts of the reply.  A run fails after a call only on the node's error.
C6_SkippedAccountsLeaveTheSum ==
  /\ reply.fresh =>
       /\ pc = "token_loop" \/ (Failed /\ err = "DecodeMint")
       /\ rpcLog[Len(rpcLog)].outcome = "ok"
       /\ token_balances[config.tokens[ti - 1].ticker] = reply.sum
  /\ err \in {"none", "Io", "Parse", "DecodeWallet", "DecodeMint", "Rpc"}
  /\ err = "Rpc" => rpcLog[Len(rpcLog)].outcome = "err"
C6_Witness ==
  /\ reply.fresh
  /\ reply.skipped
  /\ reply.sum # Zero
  /\ pc = "token_loop"

\* C7: at most one call is outstanding, and it is the last one issued; the
\* calls issued are always a prefix of the calls of the configuration in
\* list order, and a run that succeeds has issued all
\* |wallets| * (1 + |tokens|) of them.
C7_CallsOneByOneInOrder ==
  /\ outstanding \in {0, 1}
  /\ \A k \in DOMAIN rpcLog :
       rpcLog[k].outcome = "pending" <=> (k = Len(rpcLog) /\ outstanding = 1)
  /\ Len(rpcLog) <= Len(ExpectedCalls)
  /\ IssuedCalls = SubSeq(ExpectedCalls, 1, Len(rpcLog))
  /\ Succeeded => Len(rpcLog) = Len(config.wallets) * (1 + Len(config.tokens))
C7_Witness ==
  /\ pc = "done"
  /\ Len(config.wallets) = 2
  /\ config.wallets[1] = config.wallets[2]
  /\ Len(config.tokens) = 2
  /\ Len(rpcLog) = 6

\* C8: a call the node answered with an error is the last call of the run:
\* the run has failed with that error and nothing is outstanding.
C8_RpcErrorEndsRun ==
  \A k \in DOMAIN rpcLog :
    rpcLog[k].outcome = "err" =>
      /\ k = Len(rpcLog)
      /\ Failed
      /\ err = "Rpc"
      /\ outstanding = 0
C8_Witness ==
  /\ Failed
  /\ Len(rpcLog) = 1
  /\ rpcLog[1].outcome = "err"
  /\ Len(config.wallets) = 2
  /\ Len(config.tokens) >= 1

\* C9: in a finished run every wallet has one SOL line, and it shows the
\* 4-decimal number nearest to the lamports of the wallet's (latest)
\* get_balance reply divided by 10^9: 2.5000 for 2,500,000,000 lamports and
\* 0.0000 for 0.
C9_ReportedSolBalance ==
  pc = "done" =>
    \A w \in ConfiguredWallets :
      /\ Cardinality(SolLinesOf(w)) = 1
      /\ \A k \in SolLinesOf(w) :
           LET l == returned[w].lamports
               t == stdout[k].text
           IN  /\ t[1] - l.hi \in {0, 1}
               /\ t[2] \in 0..9999
               /\ LET d == (t[1] - l.hi) * 1000000000 + t[2] * 100000 - l.lo
                  IN  -50000 <= d /\ d <= 50000
               /\ l = Lamports(2, 500000000) => t = <<2, 5000>>
               /\ l = Lamports(0, 0) => t = <<0, 0>>
C9_Witness ==
  /\ pc = "done"
  /\ \E k \in DOMAIN stdout : stdout[k].kind = "sol" /\ stdout[k].text = <<2, 5000>>
  /\ \E k \in DOMAIN stdout : stdout[k].kind = "sol" /\ stdout[k].text = <<1, 2346>>

\* C10: loading the configuration does not decode the mints.  A run fails on
\* a malformed mint only while it handles its first wallet, after that
\* wallet's get_balance and the queries of the tokens listed before the
\* malformed one, all answered; with no wallet configured it issues no call
\* and prints the header alone, malformed mint or not.
C10_MintsDecodedLazily ==
  /\ file.state = "yaml" => err \notin {"Io", "Parse"}
  /\ err = "DecodeMint" =>
       /\ config.wallets # <<>>
       /\ wi = 1
       /\ ti = Min(UndecodableMints)
       /\ Len(rpcLog) = ti
       /\ AllAnswered("ok")
       /\ IssuedCalls = SubSeq(ExpectedCalls, 1, ti)
  /\ (file.state = "yaml" /\ file.content.wallets = <<>>) =>
       /\ ~Failed
       /\ rpcLog = <<>>
       /\ pc = "done" => stdout = <<HeaderLine>>
C10_Witness ==
  /\ pc = "done"
  /\ config.wallets = <<>>
  /\ UndecodableMints # {}
  /\ stdout = <<HeaderLine>>

====
